---- MODULE Spec2Model ----
(***************************************************************************)
(* cw-vest: a CosmWasm contract holding a schedule of payments, each armed *)
(* with an Expiration.  Model of src/src/contract.rs (instantiate, the     *)
(* four execute handlers, the message builder and the two queries) and of  *)
(* the id allocator of src/src/state.rs.                                   *)
(*                                                                         *)
(* Every handler is one atomic step: a CosmWasm execute runs to completion *)
(* against the store and an Err result commits no write.                   *)
(***************************************************************************)
EXTENDS Integers, Sequences, FiniteSets, TLC

(***************************************************************************)
(* Bounds of the model.                                                    *)
(***************************************************************************)
\* largest number of payments the store is filled with
MaxPayments == 2
\* block heights run over 0..MaxHeight, AtHeight triggers over 1..MaxHeight
MaxHeight == 2

(***************************************************************************)
(* Values.                                                                 *)
(***************************************************************************)
\* Option::None
None == "None"

\* tests: OWNER, "fakeOwner"; the addresses that send messages and may own
Addrs == {"owner0001", "fakeOwner"}

\* the owner the tests instantiate the contract with
OWNER == "owner0001"

\* tests: PAYEE2
Payee == "payee0002"

\* address of a cw20 token contract
Cw20Addr == "cw20"

\* tests: String::from("ujuno")
Denom == "ujuno"

\* seconds between two blocks (cw_multi_test::next_block)
BlockSeconds == 5

\* cw0::Expiration
AtHeight(h) == [kind |-> "at_height", value |-> h]
AtTime(t) == [kind |-> "at_time", value |-> t]
Never == [kind |-> "never", value |-> 0]

\* msg::Payment
Payment(recipient, amount, denom, token_address, time) ==
    [recipient |-> recipient, amount |-> amount, denom |-> denom,
     token_address |-> token_address, time |-> time]

\* The payments handed to instantiate and AddPayments: two native payments
\* to the same payee at the same height with different amounts (test
\* multiple_native_payment), a cw20 payment to the owner address at the last
\* height (test single_cw20_payment), a native payment at the timestamp of
\* block 1, and a payment of amount zero that never expires
\* (Expiration::default()).
PaymentPool ==
    {Payment(Payee, 2, Denom, None, AtHeight(1)),
     Payment(Payee, 5, Denom, None, AtHeight(1)),
     Payment("owner0001", 1, Cw20Addr, Cw20Addr, AtHeight(MaxHeight)),
     Payment(Payee, 3, Denom, None, AtTime(BlockSeconds)),
     Payment(Payee, 0, Denom, None, Never)}

RECURSIVE SeqsUpTo(_, _)
\* all sequences over S of length at most n
SeqsUpTo(S, n) ==
    IF n = 0 THEN {<<>>}
    ELSE LET shorter == SeqsUpTo(S, n - 1)
         IN shorter \cup {Append(s, x) : s \in {t \in shorter : Len(t) = n - 1}, x \in S}

\* env.block: the blocks of a chain that starts at height 0 and time 0 and
\* moves as cw_multi_test::next_block does, one height and BlockSeconds on
Blocks == {[height |-> h, time |-> BlockSeconds * h] : h \in 0..MaxHeight}

\* ids a StopPayment message may name (0 is never allocated)
Ids == 0..MaxPayments

(***************************************************************************)
(* State.                                                                  *)
(***************************************************************************)
VARIABLES
    config,         \* CONFIG: [owner |-> addr]; NoConfig before instantiate
    payment_count,  \* PAYMENT_COUNT (0 when never saved: unwrap_or_default)
    payments,       \* PAYMENTS: function from the stored keys to PaymentState
    block,          \* env.block handed to the next execute
    call,           \* the last message handled: [op, sender, id]
    response,       \* its result: [err, messages, paid_ids]
    id_log,         \* history: the ids returned by next_id, in order
    pay_log,        \* history: per id, the payment messages Pay built for it
    refund_log      \* history: per id, the refunds StopPayment built for it

vars == <<config, payment_count, payments, block, call, response,
          id_log, pay_log, refund_log>>

(***************************************************************************)
(* Store helpers.                                                          *)
(***************************************************************************)
\* the history log with one more message counted for each id of ids
Logged(log, ids) ==
    [x \in DOMAIN log \cup {ids[k] : k \in 1..Len(ids)} |->
        (IF x \in DOMAIN log THEN log[x] ELSE 0)
            + Cardinality({k \in 1..Len(ids) : ids[k] = x})]

MapSaveAlone(store, k, v) == [x \in {k} |-> v]

\* Map::save
MapSave(store, k, v) == [x \in DOMAIN store \cup {k} |-> IF x = k THEN v ELSE store[x]]

RECURSIVE KeysAscending(_)
\* the keys of a Map in Order::Ascending
KeysAscending(S) ==
    IF S = {} THEN <<>>
    ELSE LET m == CHOOSE x \in S : \A y \in S : x <= y
         IN <<m>> \o KeysAscending(S \ {m})

RECURSIVE KeysDescending(_)
KeysDescending(S) ==
    IF S = {} THEN <<>>
    ELSE LET m == CHOOSE x \in S : \A y \in S : x >= y
         IN <<m>> \o KeysDescending(S \ {m})

RangeDescending(store) ==
    LET ks == KeysDescending(DOMAIN store) IN [k \in 1..Len(ks) |-> store[ks[k]]]

\* PAYMENTS.range(storage, None, None, Order::Ascending) with the values kept
Range(store) ==
    LET ks == KeysAscending(DOMAIN store) IN [k \in 1..Len(ks) |-> store[ks[k]]]

NextIdNotSaved(count) == [id |-> count + 1, count |-> count]

\* state::next_id: the id returned and the counter persisted
NextId(count) == [id |-> count + 1, count |-> count + 1]

NewPaymentStateOldCount(p, id) ==
    [payment |-> p, paid |-> FALSE, stopped |-> FALSE, id |-> id - 1]

\* the PaymentState that instantiate and AddPayments store
NewPaymentState(p, id) == [payment |-> p, paid |-> FALSE, stopped |-> FALSE, id |-> id]

SaveScheduleFromOne(store, count, schedule) ==
    [payments |-> [x \in DOMAIN store \cup (1..Len(schedule)) |->
                      IF x <= Len(schedule) THEN NewPaymentState(schedule[x], x)
                      ELSE store[x]],
     count |-> IF count > Len(schedule) THEN count ELSE Len(schedule),
     ids |-> [k \in 1..Len(schedule) |-> k]]

RECURSIVE SaveSchedule(_, _, _)
\* the loop `for p in schedule { next_id; PAYMENTS.save }`
SaveSchedule(store, count, schedule) ==
    IF schedule = <<>> THEN [payments |-> store, count |-> count, ids |-> <<>>]
    ELSE LET n == NextId(count)
             rest == SaveSchedule(MapSave(store, n.id, NewPaymentState(Head(schedule), n.id)),
                                  n.count, Tail(schedule))
         IN [payments |-> rest.payments, count |-> rest.count, ids |-> <<n.id>> \o rest.ids]

(***************************************************************************)
(* Pay.                                                                    *)
(***************************************************************************)
IsExpiredHeightOnly(time, blk) ==
    CASE time.kind = "at_height" -> blk.height >= time.value
      [] OTHER -> FALSE

IsExpiredNeverIsNow(time, blk) ==
    CASE time.kind = "at_height" -> blk.height >= time.value
      [] time.kind = "at_time" -> blk.time >= time.value
      [] OTHER -> TRUE

IsExpiredStrict(time, blk) ==
    CASE time.kind = "at_height" -> blk.height > time.value
      [] time.kind = "at_time" -> blk.time > time.value
      [] OTHER -> FALSE

\* cw0::Expiration::is_expired, as called by execute_pay
IsExpired(time, blk) ==
    CASE time.kind = "at_height" -> blk.height >= time.value
      [] time.kind = "at_time" -> blk.time >= time.value
      [] OTHER -> FALSE

IsPayableIgnoringPaid(p, blk) == ~p.stopped /\ IsExpired(p.payment.time, blk)

IsPayableIgnoringTime(p, blk) == ~p.stopped /\ ~p.paid

\* the filter closure of execute_pay
IsPayable(p, blk) == ~p.stopped /\ ~p.paid /\ IsExpired(p.payment.time, blk)

ToBePaidDescending(store, blk) ==
    SelectSeq(RangeDescending(store), LAMBDA p : IsPayable(p, blk))

\* to_be_paid of execute_pay
ToBePaid(store, blk) == SelectSeq(Range(store), LAMBDA p : IsPayable(p, blk))

GetSendTokensMessageNativeOnly(owner, p, refund) ==
    [kind |-> "bank_send", to_address |-> IF refund THEN owner ELSE p.recipient,
     amount |-> <<[denom |-> p.denom, amount |-> p.amount]>>]

GetSendTokensMessageToRecipient(owner, p, refund) ==
    IF p.token_address # None
    THEN [kind |-> "wasm_execute", contract_addr |-> p.token_address,
          msg |-> [transfer |-> [recipient |-> p.recipient, amount |-> p.amount]],
          funds |-> <<>>]
    ELSE [kind |-> "bank_send", to_address |-> p.recipient,
          amount |-> <<[denom |-> p.denom, amount |-> p.amount]>>]

\* get_send_tokens_message; owner is CONFIG.owner, read when refund is set
GetSendTokensMessage(owner, p, refund) ==
    LET recipient == IF refund THEN owner ELSE p.recipient
    IN IF p.token_address # None
       THEN [kind |-> "wasm_execute", contract_addr |-> p.token_address,
             msg |-> [transfer |-> [recipient |-> recipient, amount |-> p.amount]],
             funds |-> <<>>]
       ELSE [kind |-> "bank_send", to_address |-> recipient,
             amount |-> <<[denom |-> p.denom, amount |-> p.amount]>>]

MarkFirstPaid(store, to_be_paid) ==
    IF to_be_paid = <<>> THEN [err |-> "ok", payments |-> store]
    ELSE [err |-> "ok", payments |-> [store EXCEPT ![Head(to_be_paid).id].paid = TRUE]]

RECURSIVE MarkPaid(_, _)
\* the loop `for p in to_be_paid { PAYMENTS.update(.. paid: true ..) }`;
\* err is set when an update finds no record under p.id
MarkPaid(store, to_be_paid) ==
    IF to_be_paid = <<>> THEN [err |-> "ok", payments |-> store]
    ELSE LET id == Head(to_be_paid).id
         IN IF id \notin DOMAIN store
            THEN [err |-> "PaymentNotFound", payments |-> store]
            ELSE MarkPaid([store EXCEPT ![id].paid = TRUE], Tail(to_be_paid))

\* the result of execute_pay on a store
PayResult(cfg, store, blk) ==
    LET to_be_paid == ToBePaid(store, blk)
        payment_msgs == [k \in 1..Len(to_be_paid) |->
                            GetSendTokensMessage(cfg.owner, to_be_paid[k].payment, FALSE)]
        marked == MarkPaid(store, to_be_paid)
    IN IF marked.err # "ok"
       THEN [err |-> marked.err, payments |-> store, messages |-> <<>>, paid_ids |-> <<>>]
       ELSE [err |-> "ok", payments |-> marked.payments, messages |-> payment_msgs,
             paid_ids |-> [k \in 1..Len(to_be_paid) |-> to_be_paid[k].id]]

(***************************************************************************)
(* StopPayment.                                                            *)
(***************************************************************************)
StopPaymentCheckFoundFirst(sender, id, cfg, store) ==
    IF id \notin DOMAIN store THEN "PaymentNotFound"
    ELSE IF sender # cfg.owner THEN "Unauthorized"
    ELSE IF store[id].paid THEN "AlreadyPaid"
    ELSE IF store[id].stopped THEN "PaymentStopped"
    ELSE "ok"

StopPaymentCheckMissingAsPaid(sender, id, cfg, store) ==
    IF sender # cfg.owner THEN "Unauthorized"
    ELSE IF id \notin DOMAIN store THEN "AlreadyPaid"
    ELSE IF store[id].paid THEN "AlreadyPaid"
    ELSE IF store[id].stopped THEN "PaymentStopped"
    ELSE "ok"

StopPaymentCheckInverted(sender, id, cfg, store) ==
    IF sender # cfg.owner THEN "Unauthorized"
    ELSE IF id \notin DOMAIN store THEN "PaymentNotFound"
    ELSE IF store[id].paid THEN "AlreadyPaid"
    ELSE IF ~store[id].stopped THEN "PaymentStopped"
    ELSE "ok"

StopPaymentCheckNoPaid(sender, id, cfg, store) ==
    IF sender # cfg.owner THEN "Unauthorized"
    ELSE IF id \notin DOMAIN store THEN "PaymentNotFound"
    ELSE IF store[id].stopped THEN "PaymentStopped"
    ELSE "ok"

StopPaymentCheckNoStopped(sender, id, cfg, store) ==
    IF sender # cfg.owner THEN "Unauthorized"
    ELSE IF id \notin DOMAIN store THEN "PaymentNotFound"
    ELSE IF store[id].paid THEN "AlreadyPaid"
    ELSE "ok"

StopPaymentCheckNoOwner(sender, id, cfg, store) ==
    IF id \notin DOMAIN store THEN "PaymentNotFound"
    ELSE IF store[id].paid THEN "AlreadyPaid"
    ELSE IF store[id].stopped THEN "PaymentStopped"
    ELSE "ok"

\* the early returns of execute_stop_payment, in their order
StopPaymentCheck(sender, id, cfg, store) ==
    IF sender # cfg.owner THEN "Unauthorized"
    ELSE IF id \notin DOMAIN store THEN "PaymentNotFound"
    ELSE IF store[id].paid THEN "AlreadyPaid"
    ELSE IF store[id].stopped THEN "PaymentStopped"
    ELSE "ok"

StopPaymentResultRefundsFirstOwner(sender, id, cfg, store) ==
    LET err == StopPaymentCheck(sender, id, cfg, store)
    IN IF err # "ok"
       THEN [err |-> err, payments |-> store, messages |-> <<>>]
       ELSE [err |-> "ok", payments |-> [store EXCEPT ![id].stopped = TRUE],
             messages |-> <<GetSendTokensMessage(OWNER, store[id].payment, TRUE)>>]

StopPaymentResultAlsoPaid(sender, id, cfg, store) ==
    LET err == StopPaymentCheck(sender, id, cfg, store)
    IN IF err # "ok"
       THEN [err |-> err, payments |-> store, messages |-> <<>>]
       ELSE [err |-> "ok",
             payments |-> [store EXCEPT ![id].stopped = TRUE, ![id].paid = TRUE],
             messages |-> <<GetSendTokensMessage(cfg.owner, store[id].payment, TRUE)>>]

\* the result of execute_stop_payment on a store
StopPaymentResult(sender, id, cfg, store) ==
    LET err == StopPaymentCheck(sender, id, cfg, store)
    IN IF err # "ok"
       THEN [err |-> err, payments |-> store, messages |-> <<>>]
       ELSE [err |-> "ok", payments |-> [store EXCEPT ![id].stopped = TRUE],
             messages |-> <<GetSendTokensMessage(cfg.owner, store[id].payment, TRUE)>>]

(***************************************************************************)
(* Initial state: an empty store, before instantiate.                      *)
(***************************************************************************)
\* CONFIG before instantiate has saved it
NoConfig == [owner |-> None]

NoCall == [op |-> "none", sender |-> None, id |-> 0]
NoResponse == [err |-> "ok", messages |-> <<>>, paid_ids |-> <<>>]

Init ==
    /\ config = NoConfig
    /\ payment_count = 0
    /\ payments = <<>>
    /\ block \in Blocks
    /\ call = NoCall
    /\ response = NoResponse
    /\ id_log = <<>>
    /\ pay_log = <<>>
    /\ refund_log = <<>>

(***************************************************************************)
(* Handlers.                                                               *)
(***************************************************************************)
InstantiateSenderOwns(sender, owner, schedule) ==
    /\ config = NoConfig
    /\ Len(schedule) <= MaxPayments
    /\ LET saved == SaveSchedule(payments, payment_count, schedule)
       IN /\ config' = [owner |-> sender]
          /\ payments' = saved.payments
          /\ payment_count' = saved.count
          /\ id_log' = id_log \o saved.ids
    /\ call' = [op |-> "instantiate", sender |-> sender, id |-> 0]
    /\ response' = NoResponse
    /\ UNCHANGED <<block, pay_log, refund_log>>

\* instantiate: runs once, on the empty store; msg.owner becomes the owner
Instantiate(sender, owner, schedule) ==
    /\ config = NoConfig
    /\ Len(schedule) <= MaxPayments
    /\ LET saved == SaveSchedule(payments, payment_count, schedule)
       IN /\ config' = [owner |-> owner]
          /\ payments' = saved.payments
          /\ payment_count' = saved.count
          /\ id_log' = id_log \o saved.ids
    /\ call' = [op |-> "instantiate", sender |-> sender, id |-> 0]
    /\ response' = NoResponse
    /\ UNCHANGED <<block, pay_log, refund_log>>

\* execute_add_payments
ExecuteAddPayments(sender, schedule) ==
    /\ config # NoConfig
    /\ payment_count + Len(schedule) <= MaxPayments
    /\ call' = [op |-> "add_payments", sender |-> sender, id |-> 0]
    /\ IF sender # config.owner
       THEN /\ response' = [NoResponse EXCEPT !.err = "Unauthorized"]
            /\ UNCHANGED <<payments, payment_count, id_log>>
       ELSE LET saved == SaveSchedule(payments, payment_count, schedule)
            IN /\ payments' = saved.payments
               /\ payment_count' = saved.count
               /\ id_log' = id_log \o saved.ids
               /\ response' = NoResponse
    /\ UNCHANGED <<config, block, pay_log, refund_log>>

\* execute_stop_payment
ExecuteStopPayment(sender, id) ==
    /\ config # NoConfig
    /\ call' = [op |-> "stop_payment", sender |-> sender, id |-> id]
    /\ LET res == StopPaymentResult(sender, id, config, payments)
       IN /\ payments' = res.payments
          /\ response' = [err |-> res.err, messages |-> res.messages, paid_ids |-> <<>>]
          /\ refund_log' = IF res.err = "ok" THEN Logged(refund_log, <<id>>) ELSE refund_log
    /\ UNCHANGED <<config, payment_count, block, id_log, pay_log>>

ExecuteUpdateConfigNoAuth(sender, owner) ==
    /\ config # NoConfig
    /\ call' = [op |-> "update_config", sender |-> sender, id |-> 0]
    /\ config' = [config EXCEPT !.owner = owner]
    /\ response' = NoResponse
    /\ UNCHANGED <<payment_count, payments, block, id_log, pay_log, refund_log>>

ExecuteUpdateConfigNotSaved(sender, owner) ==
    /\ config # NoConfig
    /\ call' = [op |-> "update_config", sender |-> sender, id |-> 0]
    /\ response' = IF sender # config.owner
                   THEN [NoResponse EXCEPT !.err = "Unauthorized"]
                   ELSE NoResponse
    /\ UNCHANGED <<config, payment_count, payments, block, id_log, pay_log, refund_log>>

\* execute_update_config
ExecuteUpdateConfig(sender, owner) ==
    /\ config # NoConfig
    /\ call' = [op |-> "update_config", sender |-> sender, id |-> 0]
    /\ IF sender # config.owner
       THEN /\ response' = [NoResponse EXCEPT !.err = "Unauthorized"]
            /\ UNCHANGED config
       ELSE /\ config' = [config EXCEPT !.owner = owner]
            /\ response' = NoResponse
    /\ UNCHANGED <<payment_count, payments, block, id_log, pay_log, refund_log>>

ExecutePayOwnerOnly(sender) ==
    /\ config # NoConfig
    /\ call' = [op |-> "pay", sender |-> sender, id |-> 0]
    /\ LET res == IF sender # config.owner
                  THEN [err |-> "Unauthorized", payments |-> payments,
                        messages |-> <<>>, paid_ids |-> <<>>]
                  ELSE PayResult(config, payments, block)
       IN /\ payments' = res.payments
          /\ response' = [err |-> res.err, messages |-> res.messages,
                          paid_ids |-> res.paid_ids]
          /\ pay_log' = Logged(pay_log, res.paid_ids)
    /\ UNCHANGED <<config, payment_count, block, id_log, refund_log>>

\* execute_pay, at the current block
ExecutePay(sender) ==
    /\ config # NoConfig
    /\ call' = [op |-> "pay", sender |-> sender, id |-> 0]
    /\ LET res == PayResult(config, payments, block)
       IN /\ payments' = res.payments
          /\ response' = [err |-> res.err, messages |-> res.messages,
                          paid_ids |-> res.paid_ids]
          /\ pay_log' = Logged(pay_log, res.paid_ids)
    /\ UNCHANGED <<config, payment_count, block, id_log, refund_log>>

\* the chain (or the test's mock_env) moves to another block
UpdateBlock(b) ==
    /\ b # block
    /\ block' = b
    /\ call' = [op |-> "update_block", sender |-> None, id |-> 0]
    /\ response' = NoResponse
    /\ UNCHANGED <<config, payment_count, payments, id_log, pay_log, refund_log>>

Next ==
    \/ \E sender \in Addrs, owner \in Addrs, schedule \in SeqsUpTo(PaymentPool, MaxPayments) :
          Instantiate(sender, owner, schedule)
    \/ \E sender \in Addrs, schedule \in SeqsUpTo(PaymentPool, MaxPayments) :
          ExecuteAddPayments(sender, schedule)
    \/ \E sender \in Addrs, id \in Ids : ExecuteStopPayment(sender, id)
    \/ \E sender \in Addrs, owner \in Addrs : ExecuteUpdateConfig(sender, owner)
    \/ \E sender \in Addrs : ExecutePay(sender)
    \/ \E b \in Blocks : UpdateBlock(b)

Spec == Init /\ [][Next]_vars

\* The runs of the tests: the contract is instantiated with OWNER as its
\* owner and OWNER sends the AddPayments; every other message is as in Next.
NextHandoff ==
    \/ \E sender \in Addrs, schedule \in SeqsUpTo(PaymentPool, MaxPayments) :
          Instantiate(sender, OWNER, schedule)
    \/ \E schedule \in SeqsUpTo(PaymentPool, MaxPayments) :
          ExecuteAddPayments(OWNER, schedule)
    \/ \E sender \in Addrs, id \in Ids : ExecuteStopPayment(sender, id)
    \/ \E sender \in Addrs, owner \in Addrs : ExecuteUpdateConfig(sender, owner)
    \/ \E sender \in Addrs : ExecutePay(sender)
    \/ \E b \in Blocks : UpdateBlock(b)

SpecHandoff == Init /\ [][NextHandoff]_vars

\* the chain produces its next block (cw_multi_test::next_block): one height
\* and BlockSeconds on; MaxHeight bounds the chain
NextBlock ==
    /\ block.height < MaxHeight
    /\ block' = [height |-> block.height + 1, time |-> block.time + BlockSeconds]
    /\ call' = [op |-> "update_block", sender |-> None, id |-> 0]
    /\ response' = NoResponse
    /\ UNCHANGED <<config, payment_count, payments, id_log, pay_log, refund_log>>

\* the payments of the runs of SpecLive: the cw20 payment at the last height,
\* the payment at the timestamp of block 1 and the payment that never expires
LivePool ==
    {Payment("owner0001", 1, Cw20Addr, Cw20Addr, AtHeight(MaxHeight)),
     Payment(Payee, 3, Denom, None, AtTime(BlockSeconds)),
     Payment(Payee, 0, Denom, None, Never)}

\* the chain starts at its first block
InitLive == Init /\ block.height = 0

\* The runs of an owner who keeps the contract, on a chain whose blocks only
\* move forward: OWNER instantiates, adds payments one at a time, stops
\* payments and sends Pay.
NextLive ==
    \/ \E schedule \in SeqsUpTo(LivePool, MaxPayments) :
          Instantiate(OWNER, OWNER, schedule)
    \/ \E schedule \in SeqsUpTo(LivePool, 1) : ExecuteAddPayments(OWNER, schedule)
    \/ \E id \in Ids : ExecuteStopPayment(OWNER, id)
    \/ ExecutePay(OWNER)
    \/ NextBlock

\* the chain keeps producing blocks and Pay keeps being sent
SpecLive ==
    /\ InitLive
    /\ [][NextLive]_vars
    /\ WF_vars(NextBlock)
    /\ WF_vars(ExecutePay(OWNER))

(***************************************************************************)
(* Queries.                                                                *)
(***************************************************************************)
QueryPaymentsPending ==
    SelectSeq(Range(payments), LAMBDA p : ~p.paid /\ ~p.stopped)

\* query_payments
QueryPayments == Range(payments)

\* query_config
QueryConfig == [owner |-> config.owner]

TypeOK ==
    /\ config.owner \in Addrs \cup {None}
    /\ payment_count \in 0..MaxPayments
    /\ block \in Blocks
    /\ response.err \in {"ok", "Unauthorized", "PaymentNotFound", "AlreadyPaid", "PaymentStopped"}

(***************************************************************************)
(* Vocabulary of the properties.                                           *)
(***************************************************************************)
\* x occurs in the sequence s
InSeq(s, x) == \E k \in 1..Len(s) : s[k] = x

\* number of messages the history log holds for id
Count(log, id) == IF id \in DOMAIN log THEN log[id] ELSE 0

\* a trigger is expired at reference R once R has reached its height or time
TriggerExpiredAt(trigger, R) ==
    \/ trigger.kind = "at_height" /\ R.height >= trigger.value
    \/ trigger.kind = "at_time" /\ R.time >= trigger.value

\* an obligation is pending while neither flag is set
Pending(o) == ~o.paid /\ ~o.stopped

\* payable at R: pending with an expired trigger
PayableAt(o, R) == Pending(o) /\ TriggerExpiredAt(o.payment.time, R)

\* destination, amount and asset of a transfer instruction
MsgDestination(m) ==
    IF m.kind = "bank_send" THEN m.to_address ELSE m.msg.transfer.recipient

MsgAmount(m) ==
    IF m.kind = "bank_send" THEN m.amount[1].amount ELSE m.msg.transfer.amount

MsgAsset(m) ==
    IF m.kind = "bank_send" THEN <<"native", m.amount[1].denom>>
    ELSE <<"token", m.contract_addr>>

AssetOf(p) ==
    IF p.token_address = None THEN <<"native", p.denom>> ELSE <<"token", p.token_address>>

\* the instruction m moves the whole of payment p to address dest
Transfers(m, p, dest) ==
    /\ MsgDestination(m) = dest
    /\ MsgAmount(m) = p.amount
    /\ MsgAsset(m) = AssetOf(p)
    /\ m.kind = "bank_send" => Len(m.amount) = 1

\* the state the contract persists
store_vars == <<config, payment_count, payments>>

(***************************************************************************)
(* C1.  Idempotence of Pay: a payment that is already paid is not selected *)
(* by any later Pay, whatever the block and the sender, and no payment     *)
(* message is built for it.                                                *)
(***************************************************************************)
C1_Idempotence ==
    [][call'.op = "pay" =>
          \A id \in DOMAIN payments :
              payments[id].paid =>
                  /\ ~InSeq(response'.paid_ids, id)
                  /\ Count(pay_log', id) = Count(pay_log, id)
                  /\ Len(response'.messages) = Len(response'.paid_ids)]_vars

\* a Pay has just run over a paid payment whose trigger is expired
C1_Witness ==
    /\ call.op = "pay"
    /\ \E id \in DOMAIN payments :
          /\ payments[id].paid
          /\ TriggerExpiredAt(payments[id].payment.time, block)
          /\ ~InSeq(response.paid_ids, id)
          /\ Count(pay_log, id) = 1

(***************************************************************************)
(* C2.  Exactly-once selection: over the whole history, the Pay calls have *)
(* built at most one payment message for any id.                           *)
(***************************************************************************)
C2_AtMostOnePayment ==
    \A id \in DOMAIN pay_log : Count(pay_log, id) <= 1

\* two payments were paid by two different Pay calls
C2_Witness ==
    /\ call.op = "pay"
    /\ Len(response.paid_ids) = 1
    /\ \E id \in DOMAIN pay_log :
          Count(pay_log, id) = 1 /\ ~InSeq(response.paid_ids, id)

(***************************************************************************)
(* C3.  No payment is both paid and stopped, and no id has received both a *)
(* payment message and a refund message.                                   *)
(***************************************************************************)
C3_NeverPaidAndRefunded ==
    /\ \A id \in DOMAIN payments : ~(payments[id].paid /\ payments[id].stopped)
    /\ \A id \in DOMAIN pay_log : ~(Count(pay_log, id) > 0 /\ Count(refund_log, id) > 0)

\* a StopPayment came after the Pay that paid its target, next to a payment
\* that was stopped before it could be paid
C3_Witness ==
    /\ call.op = "stop_payment"
    /\ response.err = "AlreadyPaid"
    /\ Count(pay_log, call.id) = 1
    /\ \E j \in DOMAIN payments : payments[j].stopped /\ Count(refund_log, j) = 1

(***************************************************************************)
(* C4.  Authorization: AddPayments, StopPayment and UpdateConfig sent by   *)
(* an address other than the owner fail with Unauthorized, build no        *)
(* message and leave the persisted state unchanged.                        *)
(***************************************************************************)
C4_Authorization ==
    [][(call'.op \in {"add_payments", "stop_payment", "update_config"}
            /\ call'.sender # config.owner) =>
          /\ response'.err = "Unauthorized"
          /\ response'.messages = <<>>
          /\ UNCHANGED store_vars
          /\ UNCHANGED <<id_log, pay_log, refund_log>>]_vars

\* a non-owner has just tried to stop a pending payment
C4_Witness ==
    /\ call.op = "stop_payment"
    /\ call.sender # config.owner
    /\ call.id \in DOMAIN payments
    /\ Pending(payments[call.id])
    /\ response.err = "Unauthorized"

(***************************************************************************)
(* C5.  Terminal-state rejection: StopPayment by the owner on a paid       *)
(* payment fails with AlreadyPaid, on a stopped payment with               *)
(* PaymentStopped; no refund is built and the state is unchanged.          *)
(***************************************************************************)
C5_TerminalRejection ==
    [][(call'.op = "stop_payment" /\ call'.sender = config.owner
            /\ call'.id \in DOMAIN payments /\ ~Pending(payments[call'.id])) =>
          /\ payments[call'.id].paid => response'.err = "AlreadyPaid"
          /\ (payments[call'.id].stopped /\ ~payments[call'.id].paid) =>
                 response'.err = "PaymentStopped"
          /\ response'.messages = <<>>
          /\ refund_log' = refund_log
          /\ UNCHANGED store_vars]_vars

\* the owner has just tried to stop a payment that was already stopped
C5_Witness ==
    /\ call.op = "stop_payment"
    /\ call.sender = config.owner
    /\ response.err = "PaymentStopped"
    /\ call.id \in DOMAIN payments
    /\ payments[call.id].stopped
    /\ Count(refund_log, call.id) = 1

(***************************************************************************)
(* C6.  Pay selects exactly the payable set: at block R it builds one      *)
(* message for each payment that is unpaid, unstopped and expired at R in  *)
(* the state before the call, and none for any other payment.              *)
(***************************************************************************)
C6_SelectsPayableSet ==
    [][call'.op = "pay" =>
          LET payable == {id \in DOMAIN payments : PayableAt(payments[id], block)}
              ids == response'.paid_ids
              msgs == response'.messages
          IN /\ {ids[k] : k \in 1..Len(ids)} = payable
             /\ Len(ids) = Cardinality(payable)
             /\ Len(msgs) = Len(ids)
             /\ \A k \in 1..Len(ids) :
                   LET p == payments[ids[k]].payment
                   IN Transfers(msgs[k], p, p.recipient)]_vars

\* a Pay has selected one payment and passed over one that is not expired
C6_Witness ==
    /\ call.op = "pay"
    /\ Len(response.paid_ids) = 1
    /\ \E id \in DOMAIN payments :
          /\ Pending(payments[id])
          /\ ~TriggerExpiredAt(payments[id].payment.time, block)
          /\ ~InSeq(response.paid_ids, id)

(***************************************************************************)
(* C7.  A StopPayment by the owner on a pending payment succeeds, sets     *)
(* stopped and builds exactly one message moving the payment's amount and  *)
(* asset to the owner; from then on no Pay selects the payment or marks it *)
(* paid.                                                                   *)
(***************************************************************************)
C7_StopRefundsOwner ==
    [][/\ (call'.op = "stop_payment" /\ call'.sender = config.owner
               /\ call'.id \in DOMAIN payments /\ Pending(payments[call'.id])) =>
             /\ response'.err = "ok"
             /\ payments'[call'.id].stopped
             /\ Len(response'.messages) = 1
             /\ Transfers(response'.messages[1], payments[call'.id].payment, config.owner)
             /\ Count(refund_log', call'.id) = Count(refund_log, call'.id) + 1
       /\ \A id \in DOMAIN payments :
             payments[id].stopped =>
                 /\ ~payments'[id].paid
                 /\ payments'[id].stopped
                 /\ call'.op = "pay" => ~InSeq(response'.paid_ids, id)]_vars

\* a payment to another address than the owner was stopped and refunded,
\* and a Pay has since run at a block where its trigger is expired
C7_Witness ==
    /\ call.op = "pay"
    /\ \E id \in DOMAIN payments :
          /\ payments[id].stopped
          /\ ~payments[id].paid
          /\ payments[id].payment.recipient # config.owner
          /\ TriggerExpiredAt(payments[id].payment.time, block)
          /\ Count(refund_log, id) = 1

(***************************************************************************)
(* C8.  Id monotonicity: the k-th id handed out by next_id is k, so ids    *)
(* start at 1, are consecutive and strictly increasing, and none is given  *)
(* twice, also after payments were paid or stopped.                        *)
(***************************************************************************)
C8_IdMonotonic ==
    \A k \in 1..Len(id_log) : id_log[k] = k

\* payment 2 was added after payment 1, of the same trigger, had been paid
C8_Witness ==
    /\ call.op = "add_payments"
    /\ response.err = "ok"
    /\ DOMAIN payments = {1, 2}
    /\ id_log = <<1, 2>>
    /\ payments[1].paid
    /\ Pending(payments[2])
    /\ payments[2].payment.time = payments[1].payment.time

(***************************************************************************)
(* C9.  Trigger boundary: a pending payment with trigger AtHeight(H) is    *)
(* not selected by a Pay below height H and stays unpaid, is selected and  *)
(* marked paid by a Pay at height H, and once paid a Pay at height H + 1   *)
(* builds nothing for it.                                                  *)
(***************************************************************************)
C9_TriggerBoundary ==
    [][call'.op = "pay" =>
          \A id \in DOMAIN payments :
              LET o == payments[id]
                  H == o.payment.time.value
              IN o.payment.time.kind = "at_height" =>
                    /\ (Pending(o) /\ block.height < H) =>
                           ~InSeq(response'.paid_ids, id) /\ ~payments'[id].paid
                    /\ (Pending(o) /\ block.height = H) =>
                           InSeq(response'.paid_ids, id) /\ payments'[id].paid
                    /\ (o.paid /\ block.height = H + 1) =>
                           ~InSeq(response'.paid_ids, id) /\ payments'[id].paid]_vars

\* a Pay at height H has just paid a payment with trigger AtHeight(H)
C9_Witness ==
    /\ call.op = "pay"
    /\ \E id \in DOMAIN payments :
          /\ payments[id].payment.time = AtHeight(block.height)
          /\ payments[id].paid
          /\ InSeq(response.paid_ids, id)

(***************************************************************************)
(* C10.  Several payments payable in one Pay: one message per payment,     *)
(* each carrying its own payment's amount to its recipient, in ascending   *)
(* id order.                                                               *)
(***************************************************************************)
C10_SeparateAscending ==
    [][call'.op = "pay" =>
          LET ids == response'.paid_ids
              msgs == response'.messages
          IN /\ Len(msgs) = Len(ids)
             /\ \A j, k \in 1..Len(ids) : j < k => ids[j] < ids[k]
             /\ \A k \in 1..Len(ids) :
                   /\ ids[k] \in DOMAIN payments
                   /\ MsgAmount(msgs[k]) = payments[ids[k]].payment.amount
                   /\ MsgDestination(msgs[k]) = payments[ids[k]].payment.recipient]_vars

\* one Pay has paid two payments of the same trigger and recipient and of
\* different amounts
C10_Witness ==
    /\ call.op = "pay"
    /\ Len(response.messages) = 2
    /\ LET a == payments[response.paid_ids[1]].payment
           b == payments[response.paid_ids[2]].payment
       IN /\ a.time = b.time
          /\ a.recipient = b.recipient
          /\ a.amount # b.amount
          /\ MsgAmount(response.messages[1]) = a.amount
          /\ MsgAmount(response.messages[2]) = b.amount

(***************************************************************************)
(* C11.  Immediate ownership handoff: an UpdateConfig by the owner makes   *)
(* GetConfig return the new owner in the same step; at every step exactly  *)
(* the sender equal to the current owner passes the owner check of         *)
(* AddPayments, StopPayment and UpdateConfig; and the owner changes in no  *)
(* other step, so the previous owner is refused from then on.              *)
(***************************************************************************)
C11_OwnershipHandoff ==
    [][/\ call'.op = "update_config" =>
             \A sender \in Addrs, owner \in Addrs :
                 (ExecuteUpdateConfig(sender, owner) /\ sender = config.owner) =>
                     response'.err = "ok" /\ QueryConfig' = [owner |-> owner]
       /\ call'.op \in {"add_payments", "stop_payment", "update_config"} =>
             (response'.err = "Unauthorized" <=> call'.sender # config.owner)
       /\ config'.owner # config.owner =>
             call'.op \in {"instantiate", "update_config"}]_vars

\* the owner has just handed the contract over to another address
C11_Witness ==
    /\ call.op = "update_config"
    /\ response.err = "ok"
    /\ call.sender # config.owner
    /\ QueryConfig.owner \in Addrs

(***************************************************************************)
(* C12.  instantiate stores one pending payment per schedule entry, in     *)
(* schedule order, makes msg.owner (not the sender) the owner and builds   *)
(* no message, also for entries whose trigger is already expired.          *)
(***************************************************************************)
C12_Instantiate ==
    [][call'.op = "instantiate" =>
          \A sender \in Addrs, owner \in Addrs,
             schedule \in SeqsUpTo(PaymentPool, MaxPayments) :
              Instantiate(sender, owner, schedule) =>
                  /\ Len(Range(payments')) = Len(schedule)
                  /\ \A k \in 1..Len(schedule) :
                        /\ Range(payments')[k].payment = schedule[k]
                        /\ Pending(Range(payments')[k])
                  /\ config'.owner = owner
                  /\ response'.err = "ok"
                  /\ response'.messages = <<>>
                  /\ \A id \in DOMAIN payments' : Count(pay_log', id) = 0]_vars

\* instantiate was sent by another address than the owner it names, with a
\* payment whose trigger is expired at the block of the call
C12_Witness ==
    /\ call.op = "instantiate"
    /\ call.sender # config.owner
    /\ response.messages = <<>>
    /\ \E id \in DOMAIN payments :
          Pending(payments[id]) /\ TriggerExpiredAt(payments[id].payment.time, block)

(***************************************************************************)
(* C13.  An AddPayments by the owner appends one pending payment per       *)
(* schedule entry under ids never used before, builds no message and       *)
(* leaves the stored payments and the owner as they were; a payment gets   *)
(* paid only in a Pay step that selects it.                                *)
(***************************************************************************)
C13_AddPaymentsFrame ==
    [][/\ (call'.op = "add_payments" /\ call'.sender = config.owner) =>
             \A schedule \in SeqsUpTo(PaymentPool, MaxPayments) :
                 ExecuteAddPayments(call'.sender, schedule) =>
                     LET old == DOMAIN payments
                         new == DOMAIN payments' \ old
                     IN /\ response'.err = "ok"
                        /\ response'.messages = <<>>
                        /\ old \subseteq DOMAIN payments'
                        /\ \A id \in old : payments'[id] = payments[id]
                        /\ Cardinality(new) = Len(schedule)
                        /\ \A id \in new :
                              /\ ~InSeq(id_log, id)
                              /\ Pending(payments'[id])
                              /\ payments'[id].id = id
                        /\ \A k \in 1..Len(schedule) :
                              Range(payments')[Cardinality(old) + k].payment = schedule[k]
                        /\ config' = config
                        /\ UNCHANGED <<pay_log, refund_log>>
       /\ \A id \in DOMAIN payments \cap DOMAIN payments' :
             (~payments[id].paid /\ payments'[id].paid) =>
                 call'.op = "pay" /\ InSeq(response'.paid_ids, id)]_vars

\* a payment was added next to a paid payment of the same trigger, and is
\* still pending although its trigger is expired at the block of the call
C13_Witness ==
    /\ call.op = "add_payments"
    /\ response.err = "ok"
    /\ \E i, j \in DOMAIN payments :
          /\ i < j
          /\ payments[i].paid
          /\ Pending(payments[j])
          /\ payments[j].payment.time = payments[i].payment.time
          /\ TriggerExpiredAt(payments[j].payment.time, block)
          /\ Count(pay_log, j) = 0

(***************************************************************************)
(* C14.  One-way latches: in no step does paid or stopped of a stored      *)
(* payment go from true to false.                                          *)
(***************************************************************************)
C14_Latches ==
    [][\A id \in DOMAIN payments :
          /\ id \in DOMAIN payments'
          /\ payments[id].paid => payments'[id].paid
          /\ payments[id].stopped => payments'[id].stopped]_vars

\* the owner was changed while one payment was paid and another stopped
C14_Witness ==
    /\ call.op = "update_config"
    /\ response.err = "ok"
    /\ \E i, j \in DOMAIN payments : payments[i].paid /\ payments[j].stopped

(***************************************************************************)
(* C15.  StopPayment by the owner with an id that was never allocated      *)
(* fails with PaymentNotFound, builds no message, creates no record under  *)
(* that id and leaves the state unchanged.                                 *)
(***************************************************************************)
C15_StopUnknownId ==
    [][(call'.op = "stop_payment" /\ call'.sender = config.owner
            /\ ~InSeq(id_log, call'.id)) =>
          /\ response'.err = "PaymentNotFound"
          /\ response'.messages = <<>>
          /\ call'.id \notin DOMAIN payments'
          /\ UNCHANGED store_vars
          /\ UNCHANGED <<id_log, pay_log, refund_log>>]_vars

\* the owner has just named an id that is not stored, next to stored ones
C15_Witness ==
    /\ call.op = "stop_payment"
    /\ call.sender = config.owner
    /\ response.err = "PaymentNotFound"
    /\ call.id \notin DOMAIN payments
    /\ DOMAIN payments # {}

(***************************************************************************)
(* C16.  StopPayment by the owner succeeds exactly when the payment exists *)
(* and is neither paid nor stopped, whatever its trigger: an expired,      *)
(* unswept payment is stopped and refunded to the owner.                   *)
(***************************************************************************)
C16_StoppableIffPending ==
    [][(call'.op = "stop_payment" /\ call'.sender = config.owner) =>
          /\ response'.err = "ok" <=>
                 (call'.id \in DOMAIN payments /\ Pending(payments[call'.id]))
          /\ response'.err = "ok" =>
                 /\ payments'[call'.id].stopped
                 /\ MsgDestination(response'.messages[1]) = config.owner]_vars

\* a payment whose trigger is expired at the block of the call was stopped
C16_Witness ==
    /\ call.op = "stop_payment"
    /\ response.err = "ok"
    /\ payments[call.id].stopped
    /\ ~payments[call.id].paid
    /\ TriggerExpiredAt(payments[call.id].payment.time, block)
    /\ MsgDestination(response.messages[1]) = config.owner

(***************************************************************************)
(* C18.  GetPayments lists every payment ever created, pending, paid or    *)
(* stopped, in ascending id order, and its length never decreases.         *)
(***************************************************************************)
C18_ListsEverything ==
    /\ [](/\ Len(QueryPayments) = Len(id_log)
          /\ \A k \in 1..Len(id_log) : QueryPayments[k].id = id_log[k]
          /\ \A k \in 2..Len(id_log) : id_log[k - 1] < id_log[k])
    /\ [][payments' # payments => Len(QueryPayments') >= Len(QueryPayments)]_vars

\* the list holds a paid and a stopped payment
C18_Witness ==
    /\ Len(QueryPayments) = MaxPayments
    /\ \E j, k \in 1..Len(QueryPayments) :
          QueryPayments[j].paid /\ QueryPayments[k].stopped

(***************************************************************************)
(* C19.  Pay completeness: right after a Pay at block R no stored payment  *)
(* is payable at R, and the response holds as many messages as payments    *)
(* went from unpaid to paid in the call.                                   *)
(***************************************************************************)
C19_PayCompleteness ==
    [][(call'.op = "pay" /\ response'.err = "ok") =>
          /\ \A id \in DOMAIN payments' : ~PayableAt(payments'[id], block)
          /\ Len(response'.messages) =
                 Cardinality({id \in DOMAIN payments :
                                 ~payments[id].paid /\ payments'[id].paid})]_vars

\* one Pay has paid every stored payment, more than one
C19_Witness ==
    /\ call.op = "pay"
    /\ Len(response.messages) = MaxPayments
    /\ \A id \in DOMAIN payments : payments[id].paid /\ InSeq(response.paid_ids, id)

(***************************************************************************)
(* C20.  Pay is unauthenticated and total: once instantiated, every sender *)
(* can run Pay in every state, it returns no error, and it returns an      *)
(* empty message list when no payment is payable.                          *)
(***************************************************************************)
C20_PayTotal ==
    /\ [](config # NoConfig => PayResult(config, payments, block).err = "ok")
    /\ [][call'.op = "pay" =>
             /\ response'.err = "ok"
             /\ (\A id \in DOMAIN payments : ~PayableAt(payments[id], block)) =>
                    response'.messages = <<>>]_vars

\* a Pay sent by another address than the owner has paid a payment
C20_Witness ==
    /\ call.op = "pay"
    /\ call.sender # config.owner
    /\ response.err = "ok"
    /\ Len(response.messages) >= 1

(***************************************************************************)
(* C21.  Records change only in their flag: Pay changes nothing but the    *)
(* paid flag of the payments payable at the block of the call (and nothing *)
(* at all when none is payable), StopPayment changes nothing but the       *)
(* stopped flag of the id it names, both leave the owner and the id        *)
(* counter alone, and no other operation changes an existing record.       *)
(***************************************************************************)
C21_FlagOnly ==
    [][/\ call'.op = "pay" =>
             /\ config' = config
             /\ payment_count' = payment_count
             /\ DOMAIN payments' = DOMAIN payments
             /\ \A id \in DOMAIN payments :
                   payments'[id] = IF PayableAt(payments[id], block)
                                   THEN [payments[id] EXCEPT !.paid = TRUE]
                                   ELSE payments[id]
             /\ (\A id \in DOMAIN payments : ~PayableAt(payments[id], block)) =>
                    UNCHANGED store_vars
       /\ call'.op = "stop_payment" =>
             /\ config' = config
             /\ payment_count' = payment_count
             /\ DOMAIN payments' = DOMAIN payments
             /\ \A id \in DOMAIN payments :
                   payments'[id] = IF id = call'.id /\ response'.err = "ok"
                                   THEN [payments[id] EXCEPT !.stopped = TRUE]
                                   ELSE payments[id]
       /\ call'.op \notin {"pay", "stop_payment"} =>
             \A id \in DOMAIN payments :
                 id \in DOMAIN payments' /\ payments'[id] = payments[id]]_vars

\* a StopPayment has stopped one payment while another stored payment is
\* paid and keeps its flags
C21_Witness ==
    /\ call.op = "stop_payment"
    /\ response.err = "ok"
    /\ payments[call.id].stopped
    /\ ~payments[call.id].paid
    /\ \E id \in DOMAIN payments : id # call.id /\ payments[id].paid

(***************************************************************************)
(* C22.  The owner changes only in a successful UpdateConfig sent by the   *)
(* current owner (instantiate creates it): Pay, StopPayment and            *)
(* AddPayments never change it, and UpdateConfig returns no message and    *)
(* leaves every payment and the id counter unchanged.                      *)
(***************************************************************************)
C22_OwnerFrame ==
    [][/\ config' # config =>
             \/ call'.op = "instantiate" /\ config = NoConfig
             \/ /\ call'.op = "update_config"
                /\ response'.err = "ok"
                /\ call'.sender = config.owner
       /\ call'.op \in {"pay", "stop_payment", "add_payments"} => config' = config
       /\ call'.op = "update_config" =>
             /\ response'.messages = <<>>
             /\ payments' = payments
             /\ payment_count' = payment_count]_vars

\* the owner has handed a store with a paid and a pending payment over to
\* the other address
C22_Witness ==
    /\ call.op = "update_config"
    /\ response.err = "ok"
    /\ config.owner # call.sender
    /\ payment_count = MaxPayments
    /\ \E i, j \in DOMAIN payments : payments[i].paid /\ Pending(payments[j])

(***************************************************************************)
(* C23.  A payment whose trigger is Never is selected by no Pay, at no     *)
(* block, and is never paid; the only change it undergoes is stopped set   *)
(* by a StopPayment the owner sends for its id.                            *)
(***************************************************************************)
C23_NeverInert ==
    /\ [](\A id \in DOMAIN payments :
             payments[id].payment.time.kind = "never" =>
                 ~payments[id].paid /\ Count(pay_log, id) = 0)
    /\ [][\A id \in DOMAIN payments :
             payments[id].payment.time.kind = "never" =>
                 /\ call'.op = "pay" => ~InSeq(response'.paid_ids, id)
                 /\ payments'[id] # payments[id] =>
                        /\ call'.op = "stop_payment"
                        /\ call'.sender = config.owner
                        /\ call'.id = id
                        /\ payments'[id] = [payments[id] EXCEPT !.stopped = TRUE]]_vars

\* a Pay at the last block has paid a payment and left the pending payment
\* that never expires
C23_Witness ==
    /\ call.op = "pay"
    /\ block.height = MaxHeight
    /\ Len(response.paid_ids) >= 1
    /\ \E id \in DOMAIN payments :
          payments[id].payment.time.kind = "never" /\ Pending(payments[id])

\* the message get_send_tokens_message is to build for payment p and
\* destination dest, field by field
HasShape(m, p, dest) ==
    IF p.token_address # None
    THEN /\ m.kind = "wasm_execute"
         /\ DOMAIN m = {"kind", "contract_addr", "msg", "funds"}
         /\ m.contract_addr = p.token_address
         /\ m.msg = [transfer |-> [recipient |-> dest, amount |-> p.amount]]
         /\ m.funds = <<>>
    ELSE /\ m.kind = "bank_send"
         /\ DOMAIN m = {"kind", "to_address", "amount"}
         /\ m.to_address = dest
         /\ m.amount = <<[denom |-> p.denom, amount |-> p.amount]>>

(***************************************************************************)
(* C24.  The shape of a message follows the asset of its payment, in Pay   *)
(* and in StopPayment alike: with a token address, a call of that contract *)
(* with Transfer{recipient, amount} and no funds; without one, a bank send *)
(* of the one coin (denom, amount); the amount is the stored amount.       *)
(***************************************************************************)
C24_InstructionShape ==
    [][/\ (call'.op = "pay" /\ response'.err = "ok") =>
             /\ Len(response'.messages) = Len(response'.paid_ids)
             /\ \A k \in 1..Len(response'.messages) :
                   LET p == payments[response'.paid_ids[k]].payment
                   IN HasShape(response'.messages[k], p, p.recipient)
       /\ (call'.op = "stop_payment" /\ response'.err = "ok") =>
             /\ Len(response'.messages) = 1
             /\ HasShape(response'.messages[1], payments[call'.id].payment,
                         config.owner)]_vars

\* one Pay has returned a token transfer and a bank send
C24_Witness ==
    /\ call.op = "pay"
    /\ \E j, k \in 1..Len(response.messages) :
          /\ response.messages[j].kind = "wasm_execute"
          /\ response.messages[j].funds = <<>>
          /\ response.messages[k].kind = "bank_send"
          /\ Len(response.messages[k].amount) = 1

(***************************************************************************)
(* C25.  Every stored payment has an amount greater than zero.             *)
(***************************************************************************)
C25_PositiveAmounts ==
    \A id \in DOMAIN payments : payments[id].payment.amount > 0

(***************************************************************************)
(* C26.  The refund of a StopPayment goes to the owner CONFIG holds when   *)
(* the StopPayment runs: once OWNER has handed the contract over, a        *)
(* StopPayment by the new owner on a payment created under OWNER refunds   *)
(* the new owner, not OWNER and not the recipient of the payment.          *)
(***************************************************************************)
C26_RefundsCurrentOwner ==
    [][(call'.op = "stop_payment" /\ response'.err = "ok") =>
          LET dest == MsgDestination(response'.messages[1])
              p == payments[call'.id].payment
          IN /\ dest = config.owner
             /\ dest = call'.sender
             /\ config.owner # OWNER => dest # OWNER
             /\ p.recipient # config.owner => dest # p.recipient]_vars

\* the address OWNER handed the contract to has stopped a payment to a third
\* address and is the destination of the refund
C26_Witness ==
    /\ call.op = "stop_payment"
    /\ response.err = "ok"
    /\ config.owner # OWNER
    /\ call.sender = config.owner
    /\ payments[call.id].payment.recipient \notin {OWNER, config.owner}
    /\ MsgDestination(response.messages[1]) = config.owner

(***************************************************************************)
(* C27.  StopPayment tests its failures in the order Unauthorized,         *)
(* PaymentNotFound, AlreadyPaid, PaymentStopped: a sender other than the   *)
(* owner gets Unauthorized whether or not the id is stored and whatever    *)
(* the flags of the payment, and changes nothing.                          *)
(***************************************************************************)
C27_CheckOrder ==
    [][call'.op = "stop_payment" =>
          /\ call'.sender # config.owner =>
                /\ response'.err = "Unauthorized"
                /\ response'.messages = <<>>
                /\ UNCHANGED store_vars
          /\ call'.sender = config.owner =>
                response'.err =
                    IF call'.id \notin DOMAIN payments THEN "PaymentNotFound"
                    ELSE IF payments[call'.id].paid THEN "AlreadyPaid"
                    ELSE IF payments[call'.id].stopped THEN "PaymentStopped"
                    ELSE "ok"]_vars

\* a sender other than the owner has named an id that is not stored, next to
\* a stored payment, and got Unauthorized
C27_Witness ==
    /\ call.op = "stop_payment"
    /\ call.sender # config.owner
    /\ call.id \notin DOMAIN payments
    /\ payments # <<>>
    /\ response.err = "Unauthorized"

(***************************************************************************)
(* C28.  PAYMENT_COUNT is the number of stored payments, the stored keys   *)
(* are exactly 1..PAYMENT_COUNT, and the id of each record is its key.     *)
(***************************************************************************)
C28_CounterConsistency ==
    /\ payment_count = Cardinality(DOMAIN payments)
    /\ DOMAIN payments = 1..payment_count
    /\ \A k \in DOMAIN payments : payments[k].id = k

\* an AddPayments has filled the store after an earlier payment was paid
C28_Witness ==
    /\ call.op = "add_payments"
    /\ response.err = "ok"
    /\ payment_count = MaxPayments
    /\ payments[1].paid
    /\ ~payments[MaxPayments].paid

\* the payment stored under id has a height or time trigger; is paid; is
\* stopped
Timed(id) == id \in DOMAIN payments /\ payments[id].payment.time.kind # "never"

IsPaid(id) == id \in DOMAIN payments /\ payments[id].paid

IsStopped(id) == id \in DOMAIN payments /\ payments[id].stopped

(***************************************************************************)
(* C29.  Disbursement: while the chain keeps producing blocks and Pay      *)
(* keeps being sent, every stored payment with a height or time trigger    *)
(* ends paid or stopped, so that one that is never stopped ends paid.  A   *)
(* stored payment keeps its trigger, and from some point on every payment  *)
(* with a height or time trigger is paid or stopped.                       *)
(***************************************************************************)
C29_Disbursement ==
    /\ [][\A id \in 1..MaxPayments : Timed(id) => Timed(id)']_vars
    /\ \A id \in 1..MaxPayments :
          <>[](Timed(id) => (IsPaid(id) \/ IsStopped(id)))

\* a Pay has paid a payment with a time trigger next to a paid payment with
\* a height trigger
C29_Witness ==
    /\ call.op = "pay"
    /\ \E i, j \in DOMAIN payments :
          /\ payments[i].payment.time.kind = "at_time"
          /\ payments[i].paid
          /\ InSeq(response.paid_ids, i)
          /\ payments[j].payment.time.kind = "at_height"
          /\ payments[j].paid

====
